---- MODULE Spec2Model ----
(***************************************************************************)
(* State-machine model of WebRTCClient (src/js/webrtc-client.js): the      *)
(* controller's fields, its async handlers split at their await points,    *)
(* the signaling socket, and the media engine (getUserMedia,               *)
(* RTCPeerConnection) as the environment the handlers call into.           *)
(*                                                                         *)
(* Two controllers, sides 1 and 2.  Under Spec side 1 runs against an      *)
(* arbitrary signaling peer (messages are drawn from a small set); under   *)
(* GlareSpec both sides run and their sockets are relayed to each other;   *)
(* under CommandSpec side 1 is driven by the UI's commands alone.          *)
(***************************************************************************)
EXTENDS Integers, Sequences, FiniteSets, Bags, TLC

\* ------------------------------------------------------------------ bounds
MaxStart == 1
MaxEnd == 2
MaxRecv == 2

\* getUserMedia({video: true, audio: true}): one video and one audio track.
NTracks == 2

Sides == {1, 2}
Peer(s) == 3 - s

VARIABLES
  mode,      \* "solo": side 1 against an abstract peer; "pair": two controllers
  rollback,  \* per side: whether the engine rolls a pending local offer back on a
             \* remote offer ("yes", "no"), "unknown" until it first has to
  ctl,       \* per side: the WebRTCClient instance's fields
  sock,      \* per side: readyState of the WebSocket the instance created
  pcs,       \* per side: the RTCPeerConnection objects created so far
  streams,   \* per side: the MediaStreams getUserMedia returned: whether their
             \* tracks are live, and the enabled flag of each track
  tasks,     \* per side: bag of handler invocations suspended at an await
  net,       \* per side: messages sent and not yet relayed to the peer
  hist,      \* per side: counters of commands, received messages, callbacks
  fired,     \* what the latest step did: commands, receipts, sends, callbacks
  sent       \* the messages the latest step handed to the socket

vars ==
  <<mode, rollback, ctl, sock, pcs, streams, tasks, net, hist, fired, sent>>

\* ------------------------------------------------------------ descriptions
\* An SDP description or ICE candidate, reduced to what the engine's state
\* machine looks at: its type, the side that made it, and a serial.
NoDesc == [type |-> "none", by |-> 0, n |-> 0]
Offer(s, n) == [type |-> "offer", by |-> s, n |-> n]
Answer(s, o) == [type |-> "answer", by |-> s, n |-> o.n]
Cand(s, n) == [type |-> "cand", by |-> s, n |-> n]

\* this.sessionId = config.sessionId: both ends of a call share one id.
SessionId(s) == "S1"
ForeignSession == "S2"

Msg(t, sid, body) == [type |-> t, sessionId |-> sid, body |-> body]

\* new RTCPeerConnection(rtcConfig): open, stable, nothing negotiated, no
\* local track attached (senders), no remote track received (tracks).
NewPc ==
  [closed |-> FALSE, sig |-> "stable", local |-> NoDesc, remote |-> NoDesc,
   cands |-> <<>>, conn |-> "new", tracks |-> 0, senders |-> 0,
   issued |-> 0, served |-> 0]

\* The MediaStream of getUserMedia({video: true, audio: true}): live, its
\* video and its audio track enabled.
NewStream == [live |-> TRUE, video |-> TRUE, audio |-> TRUE]

\* A suspended handler: which handler, the await it sits at, the peer
\* connection its pending engine operation was invoked on, the operation's
\* argument, and its place in that connection's operations chain.
Task(k, at, obj, arg, tick) ==
  [k |-> k, at |-> at, obj |-> obj, arg |-> arg, tick |-> tick]

\* constructor(config)
InitCtl ==
  [ws |-> FALSE, pc |-> 0, localStream |-> 0, remoteStream |-> FALSE,
   isCallActive |-> FALSE, isLocalVideoEnabled |-> TRUE,
   isLocalAudioEnabled |-> TRUE, ui |-> "none"]

\* Bookkeeping the properties read; the handlers never read it.
\*   starts, ends, recv: commands issued and messages received so far
\*   candIn: ice-candidate messages of the own session received so far
\*   foreign: a message of another session has been received
\*   callEnded: onCallEnded() invocations so far
\*   offered: an offer has been sent
\*   sdpIn: an offer or answer of the own session has been received
\*   glare: an offer was received while an own offer was pending
\*   endedMid: endCall() ran while startCall()/handleOffer() was suspended
\*   restarted: startCall() or an offer began after an endCall()
InitHist ==
  [starts |-> 0, ends |-> 0, recv |-> 0, candIn |-> 0, foreign |-> FALSE,
   callEnded |-> 0, offered |-> FALSE, sdpIn |-> FALSE, glare |-> FALSE, endedMid |-> FALSE, restarted |-> FALSE]

\* ------------------------------------------------------------------ worlds
\* One side's slice of the state, threaded through the statements of a
\* handler; out and ev collect the messages sent and the events of the step.
World(s) ==
  [c |-> ctl[s], sk |-> sock[s], ps |-> pcs[s], ss |-> streams[s],
   tk |-> tasks[s], h |-> hist[s], rb |-> rollback[s], out |-> <<>>, ev |-> <<>>]

Commit(s, w) ==
  /\ ctl' = [ctl EXCEPT ![s] = w.c]
  /\ sock' = [sock EXCEPT ![s] = w.sk]
  /\ pcs' = [pcs EXCEPT ![s] = w.ps]
  /\ streams' = [streams EXCEPT ![s] = w.ss]
  /\ tasks' = [tasks EXCEPT ![s] = w.tk]
  /\ hist' = [hist EXCEPT ![s] = w.h]
  /\ net' = [net EXCEPT ![s] = IF mode = "pair" THEN @ \o w.out ELSE @]
  /\ fired' = w.ev
  /\ sent' = w.out
  /\ rollback' = [rollback EXCEPT ![s] = w.rb]
  /\ UNCHANGED mode

Ev(w, s, kind, what) == [w EXCEPT !.ev = Append(@, <<s, kind, what>>)]

Suspend(w, t) == [w EXCEPT !.tk = @ (+) SetToBag({t})]

\* The UI callbacks of the config object.
OnError(w, s, reason) == Ev(w, s, "error", reason)
OnConnectionStateChange(w, s, state) ==
  Ev([w EXCEPT !.c.ui = state], s, "state", state)
OnRemoteStream(w, s) == Ev(w, s, "remoteStream", "")
OnCallEnded(w, s) ==
  Ev([w EXCEPT !.h.callEnded = @ + 1], s, "callEnded", "")

\* console.error(...), where a failure is logged and not reported.
ConsoleError(w, s, what) == Ev(w, s, "log", what)

\* sendWebSocketMessage(message)
SendWebSocketMessage(w, s, m) ==
  IF w.c.ws /\ w.sk = "open"
    THEN Ev([w EXCEPT !.out = Append(@, m),
                      !.h.offered = @ \/ m.type = "offer"], s, "send", m.type)
    ELSE w

\* ------------------------------------------------------------ media engine
\* Invoking an operation on a peer connection appends it to the
\* connection's operations chain; it settles in invocation order.
Invoke(w, s, k, at, arg) ==
  LET id == w.c.pc
      t == Task(k, at, id, arg, w.ps[id].issued)
  IN Suspend([w EXCEPT !.ps[id].issued = @ + 1], t)

Settle(w, t) == [w EXCEPT !.ps[t.obj].served = @ + 1]

\* pc.ontrack, fired once per remote track when a remote description is
\* applied for the first time.
OnTrack(w, s) ==
  OnConnectionStateChange(
    OnRemoteStream([w EXCEPT !.c.remoteStream = TRUE], s), s, "connected")

RECURSIVE FireTracks(_, _, _)
FireTracks(w, s, k) ==
  IF k = 0 THEN w ELSE FireTracks(OnTrack(w, s), s, k - 1)

ApplyRemote(w, s, id, d) ==
  LET fresh == w.ps[id].tracks = 0
      w1 == [w EXCEPT !.ps[id].remote = d,
                      !.ps[id].sig =
                        IF d.type = "offer" THEN "have-remote-offer" ELSE "stable",
                      !.ps[id].local =
                        IF d.type = "offer" /\ w.ps[id].sig = "have-local-offer"
                          THEN NoDesc ELSE @,
                      !.ps[id].tracks = NTracks]
  IN IF fresh THEN FireTracks(w1, s, NTracks) ELSE w1

\* Whether the engine accepts setRemoteDescription(d) on connection p; rb
\* tells whether this engine rolls back a pending local offer.
RemoteOk(p, d, rb) ==
  /\ ~p.closed
  /\ \/ d.type = "offer" /\ p.sig \in {"stable", "have-remote-offer"}
     \/ d.type = "offer" /\ p.sig = "have-local-offer" /\ rb = "yes"
     \/ d.type = "answer" /\ p.sig = "have-local-offer"

\* A remote offer on a connection with a pending local offer: engines that
\* implement implicit rollback accept it, the others reject it.
NeedsRollback(p, d) ==
  ~p.closed /\ d.type = "offer" /\ p.sig = "have-local-offer"

\* Whether the engine accepts setLocalDescription(d) on connection p.
LocalOk(p, d) ==
  /\ ~p.closed
  /\ \/ d.type = "offer" /\ p.sig \in {"stable", "have-local-offer"}
     \/ d.type = "answer" /\ p.sig = "have-remote-offer"

ApplyLocal(w, id, d) ==
  [w EXCEPT !.ps[id].local = d,
            !.ps[id].sig =
              IF d.type = "offer" THEN "have-local-offer" ELSE "stable"]

\* navigator.mediaDevices.getUserMedia resolved: a new live stream.
Acquire(w) ==
  [w EXCEPT !.ss = Append(@, NewStream), !.c.localStream = Len(w.ss) + 1]

\* ------------------------------------------------------------ the handlers
\* createPeerConnection()
CreatePeerConnection(w) ==
  [w EXCEPT !.ps = Append(@, NewPc), !.c.pc = Len(w.ps) + 1]

\* localStream.getTracks().forEach(track => this.pc.addTrack(track, ...))
AddTracks(w) == [w EXCEPT !.ps[w.c.pc].senders = NTracks]

\* handleOffer without its "if (!this.pc)" test: a peer connection is
\* created for every offer.
HandleOfferPcAlways(w, s, sdp) ==
  Invoke(AddTracks(CreatePeerConnection(w)), s, "handleOffer", "setRemote", sdp)

\* handleOffer, lines 226-233: reuse or create the peer connection, then
\* start setting the remote description.
HandleOfferPc(w, s, sdp) ==
  LET w1 == IF w.c.pc = 0 THEN AddTracks(CreatePeerConnection(w)) ELSE w
  IN Invoke(w1, s, "handleOffer", "setRemote", sdp)

\* handleOffer(offerSdp), up to its first await.
HandleOffer(w, s, sdp) ==
  IF w.c.localStream = 0
    THEN Suspend(w, Task("handleOffer", "gum", 0, sdp, 0))
    ELSE HandleOfferPc(w, s, sdp)

\* handleAnswer(answerSdp), up to its await.
HandleAnswer(w, s, sdp) ==
  IF w.c.pc # 0 THEN Invoke(w, s, "handleAnswer", "setRemote", sdp) ELSE w

\* handleIceCandidate(candidate), up to its await.
HandleIceCandidate(w, s, cand) ==
  IF w.c.pc # 0 THEN Invoke(w, s, "handleIce", "addIce", cand) ELSE w

\* pc.close(): no event fires on a closed connection.
ClosePc(w) ==
  IF w.c.pc # 0
    THEN [w EXCEPT !.ps[w.c.pc].closed = TRUE, !.ps[w.c.pc].sig = "closed",
                   !.ps[w.c.pc].conn = "closed", !.c.pc = 0]
    ELSE w

\* localStream.getTracks().forEach(track => track.stop())
StopLocal(w) ==
  IF w.c.localStream # 0
    THEN [w EXCEPT !.ss[w.c.localStream].live = FALSE, !.c.localStream = 0]
    ELSE w

\* ws.close(): the socket starts closing; its close event comes later.
CloseWs(w) ==
  IF w.c.ws
    THEN [w EXCEPT !.sk = IF @ \in {"connecting", "open"} THEN "closing" ELSE @,
                   !.c.ws = FALSE]
    ELSE w

\* endCall(), up to its await of fetch.
EndCall(w, s) ==
  LET w1 == IF w.c.ws /\ w.sk = "open"
              THEN SendWebSocketMessage(w, s, Msg("call-ended", SessionId(s), NoDesc))
              ELSE w
      w2 == CloseWs(StopLocal(ClosePc(w1)))
      w3 == OnCallEnded([w2 EXCEPT !.c.isCallActive = FALSE], s)
  IN Suspend(w3, Task("endCall", "fetch", 0, NoDesc, 0))

\* endCall() when ws.send() throws at line 95: the exception leaves
\* sendWebSocketMessage and the try of line 315 for the catch of line 359;
\* lines 324-357 do not run.
EndCallSendThrows(w, s) ==
  OnError(ConsoleError(Ev(w, s, "sendFailed", "call-ended"), s, "Error ending call"),
          s, "Failed to end call")

\* A boolean as the UI is handed it.
Shown(b) == IF b THEN "true" ELSE "false"

\* toggleVideo() without its "if (this.localStream)" test.
ToggleVideoUnguarded(w, s) ==
  LET on == ~w.c.isLocalVideoEnabled
  IN Ev([w EXCEPT !.c.isLocalVideoEnabled = on], s, "return", Shown(on))

\* toggleVideo(): getUserMedia({video: true, ...}) streams have a video
\* track, so "if (videoTrack)" holds whenever there is a stream.
ToggleVideo(w, s) ==
  IF w.c.localStream # 0
    THEN LET on == ~w.c.isLocalVideoEnabled
         IN Ev([w EXCEPT !.c.isLocalVideoEnabled = on,
                         !.ss[w.c.localStream].video = on], s, "return", Shown(on))
    ELSE Ev(w, s, "return", "false")

\* toggleAudio()
ToggleAudio(w, s) ==
  IF w.c.localStream # 0
    THEN LET on == ~w.c.isLocalAudioEnabled
         IN Ev([w EXCEPT !.c.isLocalAudioEnabled = on,
                         !.ss[w.c.localStream].audio = on], s, "return", Shown(on))
    ELSE Ev(w, s, "return", "false")

\* handleSignalingMessage(message): the session id is not looked at.
HandleSignalingMessage(w, s, m) ==
  CASE m.type = "offer" -> HandleOffer(w, s, m.body)
    [] m.type = "answer" -> HandleAnswer(w, s, m.body)
    [] m.type = "ice-candidate" -> HandleIceCandidate(w, s, m.body)
    [] m.type = "call-ended" -> EndCall(w, s)
    [] OTHER -> w

\* startCall() going on to its peer connection although getUserMedia was
\* denied, as if the rejection were not thrown into the catch of line 162.
StartCallAfterGumUncaught(w, s, ok) ==
  IF ok
    THEN Invoke(AddTracks(CreatePeerConnection(Acquire(w))), s,
                "startCall", "createOffer", NoDesc)
    ELSE Invoke(CreatePeerConnection(w), s, "startCall", "createOffer", NoDesc)

\* startCall() resumed after getUserMedia: lines 131-150.
StartCallAfterGum(w, s, ok) ==
  IF ok
    THEN Invoke(AddTracks(CreatePeerConnection(Acquire(w))), s,
                "startCall", "createOffer", NoDesc)
    ELSE OnError(w, s, "Failed to start call")

\* startCall() resumed after createOffer: line 151.
StartCallAfterOffer(w, s, t, ok) ==
  IF ok /\ ~w.ps[t.obj].closed /\ w.ps[t.obj].sig \in {"stable", "have-local-offer"}
    THEN IF w.c.pc # 0
           THEN Invoke(w, s, "startCall", "setLocal", Offer(s, t.obj))
           ELSE OnError(w, s, "Failed to start call")
    ELSE OnError(w, s, "Failed to start call")

\* After setLocalDescription: lines 153-160 of startCall, 239-246 of
\* handleOffer.
AfterSetLocal(w, s, t) ==
  LET failure == IF t.k = "startCall" THEN "Failed to start call"
                                     ELSE "Failed to handle offer"
  IN IF LocalOk(w.ps[t.obj], t.arg)
       THEN LET w1 == ApplyLocal(w, t.obj, t.arg)
                w2 == SendWebSocketMessage(w1, s, Msg(t.arg.type, SessionId(s), t.arg))
            IN OnConnectionStateChange([w2 EXCEPT !.c.isCallActive = TRUE], s, "connecting")
       ELSE OnError(w, s, failure)

\* handleOffer() resumed after getUserMedia: lines 216-233.
HandleOfferAfterGum(w, s, t, ok) ==
  IF ok THEN HandleOfferPc(Acquire(w), s, t.arg)
        ELSE OnError(w, s, "Failed to handle offer")

\* After setRemoteDescription: line 236 of handleOffer, the end of
\* handleAnswer.
AfterSetRemote(w, s, t) ==
  IF RemoteOk(w.ps[t.obj], t.arg, w.rb)
    THEN LET w1 == ApplyRemote(w, s, t.obj, t.arg)
         IN IF t.k = "handleAnswer" THEN w1
            ELSE IF w1.c.pc # 0
              THEN Invoke(w1, s, "handleOffer", "createAnswer", NoDesc)
              ELSE OnError(w1, s, "Failed to handle offer")
    ELSE OnError(w, s, IF t.k = "handleAnswer" THEN "Failed to handle answer"
                                               ELSE "Failed to handle offer")

\* handleOffer() sending its answer as soon as createAnswer has produced
\* it, before setLocalDescription (lines 237 and 239-243 swapped).
HandleOfferAfterAnswerSendsFirst(w, s, t) ==
  IF ~w.ps[t.obj].closed /\ w.ps[t.obj].sig = "have-remote-offer" /\ w.c.pc # 0
    THEN LET answer == Answer(s, w.ps[t.obj].remote)
         IN Invoke(SendWebSocketMessage(w, s, Msg("answer", SessionId(s), answer)),
                   s, "handleOffer", "setLocal", answer)
    ELSE OnError(w, s, "Failed to handle offer")

\* handleOffer() resumed after createAnswer: line 237.
HandleOfferAfterAnswer(w, s, t) ==
  IF ~w.ps[t.obj].closed /\ w.ps[t.obj].sig = "have-remote-offer" /\ w.c.pc # 0
    THEN Invoke(w, s, "handleOffer", "setLocal", Answer(s, w.ps[t.obj].remote))
    ELSE OnError(w, s, "Failed to handle offer")

\* handleIceCandidate() resumed after addIceCandidate: a rejection is
\* logged and nothing else.
AfterAddIce(w, s, t) ==
  IF ~w.ps[t.obj].closed /\ w.ps[t.obj].remote # NoDesc
    THEN [w EXCEPT !.ps[t.obj].cands = Append(@, t.arg)]
    ELSE w

\* endCall() without the inner try of lines 347-356: a rejected fetch
\* reaches the catch of line 359.
EndCallAfterFetchSurfaced(w, s, ok) ==
  IF ok THEN w
        ELSE OnError(ConsoleError(w, s, "Error ending call"), s, "Failed to end call")

\* endCall() resumed after fetch, lines 348-356: a rejection is caught by
\* the inner try and logged.
EndCallAfterFetch(w, s, ok) ==
  IF ok THEN w ELSE ConsoleError(w, s, "Error ending session")

\* pc.onconnectionstatechange: reads this.pc, not the connection the event
\* is about; with this.pc null the read throws inside the event handler.
OnPcConnectionState(w, s) ==
  IF w.c.pc = 0 THEN w
  ELSE LET state == w.ps[w.c.pc].conn
           w1 == OnConnectionStateChange(w, s, state)
       IN IF state \in {"failed", "disconnected"}
            THEN OnError(w1, s, "Connection failed") ELSE w1

\* -------------------------------------------------------------- the steps
Active(s) == mode = "pair" \/ s = 1

\* A suspended handler whose awaited operation is next to settle.
Ready(s, at) ==
  {t \in BagToSet(tasks[s]) :
     t.at = at /\ (t.obj = 0 \/ pcs[s][t.obj].served = t.tick)}

\* The side's world with task t taken off the suspended ones and its
\* operation taken off its connection's chain.
Resumed(s, t) ==
  LET w == [World(s) EXCEPT !.tk = @ (-) SetToBag({t})]
  IN IF t.obj = 0 THEN w ELSE Settle(w, t)

\* this.ws = new WebSocket(wsUrl), once per controller.
ConnectWebSocket(s) ==
  /\ Active(s) /\ sock[s] = "none"
  /\ Commit(s, Ev([World(s) EXCEPT !.c.ws = TRUE, !.sk = "connecting"],
                  s, "cmd", "connectWebSocket"))

\* ws.onopen
WsOnOpen(s) ==
  /\ sock[s] = "connecting"
  /\ Commit(s, SendWebSocketMessage([World(s) EXCEPT !.sk = "open"], s,
                                    Msg("join", SessionId(s), NoDesc)))

\* ws.onclose, once the socket that ws.close() was called on has closed.
WsOnClose(s) ==
  /\ sock[s] = "closing"
  /\ Commit(s, OnConnectionStateChange([World(s) EXCEPT !.sk = "closed"], s,
                                       "disconnected"))

\* The UI calls startCall().
StartCall(s) ==
  /\ Active(s) /\ hist[s].starts < MaxStart
  /\ LET w == Ev([World(s) EXCEPT !.h.starts = @ + 1,
                                  !.h.restarted = @ \/ hist[s].ends > 0],
                 s, "cmd", "startCall")
     IN Commit(s, Suspend(w, Task("startCall", "gum", 0, NoDesc, 0)))

\* Whether a startCall() or handleOffer() is suspended before its end.
MidNegotiation(s) ==
  \E t \in BagToSet(tasks[s]) : t.k \in {"startCall", "handleOffer"}

\* The UI calls endCall() or destroy().
EndCallCmd(s) ==
  /\ Active(s) /\ hist[s].ends < MaxEnd
  /\ LET w == Ev([World(s) EXCEPT !.h.ends = @ + 1,
                                  !.h.endedMid = @ \/ MidNegotiation(s)],
                 s, "cmd", "endCall")
     IN Commit(s, EndCall(w, s))

\* The UI calls endCall() on an open socket whose send() throws.
EndCallSendFails(s) ==
  /\ Active(s) /\ hist[s].ends < MaxEnd
  /\ ctl[s].ws /\ sock[s] = "open"
  /\ LET w == Ev([World(s) EXCEPT !.h.ends = @ + 1,
                                  !.h.endedMid = @ \/ MidNegotiation(s)],
                 s, "cmd", "endCall")
     IN Commit(s, EndCallSendThrows(w, s))

\* The UI calls toggleVideo().
ToggleVideoCmd(s) ==
  /\ Active(s)
  /\ Commit(s, ToggleVideo(Ev(World(s), s, "cmd", "toggleVideo"), s))

\* The UI calls toggleAudio().
ToggleAudioCmd(s) ==
  /\ Active(s)
  /\ Commit(s, ToggleAudio(Ev(World(s), s, "cmd", "toggleAudio"), s))

\* ws.onmessage: the bookkeeping of a receipt, then handleSignalingMessage.
OnMessage(s, m) ==
  LET own == m.sessionId = SessionId(s)
      pending == ctl[s].pc # 0 /\ pcs[s][ctl[s].pc].sig = "have-local-offer"
      w == [World(s) EXCEPT
              !.h.recv = @ + 1,
              !.h.foreign = @ \/ ~own,
              !.h.candIn = IF own /\ m.type = "ice-candidate" THEN @ + 1 ELSE @,
              !.h.sdpIn = @ \/ (own /\ m.type \in {"offer", "answer"}),
              !.h.glare = @ \/ (own /\ m.type = "offer" /\ pending),
              !.h.restarted = @ \/ (m.type = "offer" /\ hist[s].ends > 0),
              !.h.ends = IF m.type = "call-ended" THEN @ + 1 ELSE @,
              !.h.endedMid = @ \/ (m.type = "call-ended" /\ MidNegotiation(s))]
  IN HandleSignalingMessage(
       Ev(w, s, IF own THEN "recv" ELSE "recvForeign", m.type), s, m)

\* The messages an abstract peer may send next: an offer or a call-ended at
\* any time, an answer once it was sent an offer, a candidate once it has
\* sent an offer or an answer.
FromPeer(s) ==
  {Msg("call-ended", SessionId(s), NoDesc), Msg("offer", SessionId(s), Offer(Peer(s), 1))}
  \cup (IF hist[s].offered
          THEN {Msg("answer", SessionId(s), Answer(Peer(s), Offer(s, 1)))} ELSE {})
  \cup (IF hist[s].sdpIn
          THEN {Msg("ice-candidate", SessionId(s), Cand(Peer(s), hist[s].candIn + 1))}
          ELSE {})

\* The messages of another session that may show up on the channel; their
\* payloads look like any other.
FromOthers(s) ==
  {Msg("call-ended", ForeignSession, NoDesc),
   Msg("offer", ForeignSession, Offer(Peer(s), 1)),
   Msg("answer", ForeignSession, Answer(Peer(s), Offer(s, 1))),
   Msg("ice-candidate", ForeignSession, Cand(Peer(s), 0))}

Incoming(s) == FromPeer(s) \cup FromOthers(s)

\* Solo: the socket delivers a message from the abstract peer.
Receive(s) ==
  /\ mode = "solo" /\ Active(s) /\ sock[s] = "open" /\ hist[s].recv < MaxRecv
  /\ \E m \in Incoming(s) : Commit(s, OnMessage(s, m))

\* Pair: the server relays the next message the peer sent.
Deliver(s) ==
  /\ mode = "pair" /\ sock[s] = "open" /\ net[Peer(s)] # <<>>
  /\ LET w == OnMessage(s, Head(net[Peer(s)]))
     IN /\ ctl' = [ctl EXCEPT ![s] = w.c]
        /\ sock' = [sock EXCEPT ![s] = w.sk]
        /\ pcs' = [pcs EXCEPT ![s] = w.ps]
        /\ streams' = [streams EXCEPT ![s] = w.ss]
        /\ tasks' = [tasks EXCEPT ![s] = w.tk]
        /\ hist' = [hist EXCEPT ![s] = w.h]
        /\ net' = [net EXCEPT ![s] = @ \o w.out, ![Peer(s)] = Tail(@)]
        /\ fired' = w.ev
        /\ sent' = w.out
        /\ rollback' = [rollback EXCEPT ![s] = w.rb]
        /\ UNCHANGED mode

\* getUserMedia settles: granted or denied.
GumSettles(s) ==
  \E t \in Ready(s, "gum") : \E ok \in BOOLEAN :
    Commit(s, IF t.k = "startCall"
                THEN StartCallAfterGum(Resumed(s, t), s, ok)
                ELSE HandleOfferAfterGum(Resumed(s, t), s, t, ok))

\* pc.createOffer() settles: an offer, or a rejection.
CreateOfferSettles(s) ==
  \E t \in Ready(s, "createOffer") : \E ok \in BOOLEAN :
    Commit(s, StartCallAfterOffer(Resumed(s, t), s, t, ok))

\* pc.setLocalDescription() settles.
SetLocalSettles(s) ==
  \E t \in Ready(s, "setLocal") : Commit(s, AfterSetLocal(Resumed(s, t), s, t))

\* pc.setRemoteDescription() settles.
SetRemoteSettles(s) ==
  \E t \in Ready(s, "setRemote") :
    \E rb \in IF rollback[s] = "unknown" /\ NeedsRollback(pcs[s][t.obj], t.arg)
                THEN {"yes", "no"} ELSE {rollback[s]} :
      Commit(s, AfterSetRemote([Resumed(s, t) EXCEPT !.rb = rb], s, t))

\* pc.createAnswer() settles.
CreateAnswerSettles(s) ==
  \E t \in Ready(s, "createAnswer") :
    Commit(s, HandleOfferAfterAnswer(Resumed(s, t), s, t))

\* pc.addIceCandidate() settles.
AddIceSettles(s) ==
  \E t \in Ready(s, "addIce") : Commit(s, AfterAddIce(Resumed(s, t), s, t))

\* fetch(.../sessions/{id}/end) settles: fulfilled, or rejected.
FetchSettles(s) ==
  \E t \in Ready(s, "fetch") : \E ok \in BOOLEAN :
    Commit(s, EndCallAfterFetch(Resumed(s, t), s, ok))

\* Two connections that hold each other's descriptions.
Matched(p, q) ==
  /\ ~p.closed /\ ~q.closed /\ p.sig = "stable" /\ q.sig = "stable"
  /\ p.local # NoDesc /\ p.remote # NoDesc
  /\ p.local = q.remote /\ p.remote = q.local

HasMatch(s, id) ==
  \E j \in 1..Len(pcs[Peer(s)]) : Matched(pcs[s][id], pcs[Peer(s)][j])

\* The signaling exchange has come to rest on both sides.
SignalingAtRest ==
  \A s \in Sides : tasks[s] = EmptyBag /\ net[s] = <<>>

\* The connectivity changes the engine may report for connection id.  With
\* an abstract peer any path of the engine's state machine may happen; with
\* a modelled peer the media path comes up exactly when both ends hold each
\* other's descriptions, and fails once the exchange has ended without that.
ConnChange(s, id) ==
  LET p == pcs[s][id]
  IN IF p.closed THEN {}
     ELSE CASE p.conn = "new" ->
                 IF p.local # NoDesc /\ p.remote # NoDesc THEN {"connecting"} ELSE {}
            [] p.conn = "connecting" ->
                 IF mode = "solo"
                   THEN (IF p.sig = "stable" THEN {"connected"} ELSE {}) \cup {"failed"}
                   ELSE IF HasMatch(s, id) THEN {"connected"}
                        ELSE IF SignalingAtRest THEN {"failed"} ELSE {}
            [] p.conn = "connected" -> IF mode = "solo" THEN {"disconnected"} ELSE {}
            [] p.conn = "disconnected" -> IF mode = "solo" THEN {"failed"} ELSE {}
            [] OTHER -> {}

\* The engine changes a connection's connectionState and fires
\* connectionstatechange on it.
ConnectionStateChanges(s) ==
  \E id \in 1..Len(pcs[s]) : \E state \in ConnChange(s, id) :
    Commit(s, OnPcConnectionState([World(s) EXCEPT !.ps[id].conn = state], s))

\* ------------------------------------------------------- the specification
Empty == [s \in Sides |-> <<>>]

Init ==
  /\ mode = "solo"
  /\ rollback = [s \in Sides |-> "unknown"]
  /\ ctl = [s \in Sides |-> InitCtl]
  /\ sock = [s \in Sides |-> "none"]
  /\ pcs = Empty
  /\ streams = Empty
  /\ tasks = [s \in Sides |-> EmptyBag]
  /\ net = Empty
  /\ hist = [s \in Sides |-> InitHist]
  /\ fired = <<>>
  /\ sent = <<>>

Next ==
  \E s \in Sides :
    \/ ConnectWebSocket(s)
    \/ WsOnOpen(s)
    \/ WsOnClose(s)
    \/ StartCall(s)
    \/ EndCallCmd(s)
    \/ Receive(s)
    \/ GumSettles(s)
    \/ CreateOfferSettles(s)
    \/ SetLocalSettles(s)
    \/ SetRemoteSettles(s)
    \/ CreateAnswerSettles(s)
    \/ AddIceSettles(s)
    \/ FetchSettles(s)
    \/ ConnectionStateChanges(s)

\* One controller against an abstract peer.
Spec == Init /\ [][Next]_vars

\* Glare: both controllers are connected to the channel and both have
\* called startCall(), neither having received anything yet.  The exchange
\* of offers and answers is followed; candidates are not.
GlareCtl == [InitCtl EXCEPT !.ws = TRUE]

GlareInit ==
  /\ mode = "pair"
  /\ rollback = [s \in Sides |-> "unknown"]
  /\ ctl = [s \in Sides |-> GlareCtl]
  /\ sock = [s \in Sides |-> "open"]
  /\ pcs = Empty
  /\ streams = Empty
  /\ tasks = [s \in Sides |-> SetToBag({Task("startCall", "gum", 0, NoDesc, 0)})]
  /\ net = Empty
  /\ hist = [s \in Sides |-> [InitHist EXCEPT !.starts = 1]]
  /\ fired = <<>>
  /\ sent = <<>>

GlareNext ==
  \E s \in Sides :
    \/ Deliver(s)
    \/ GumSettles(s)
    \/ CreateOfferSettles(s)
    \/ SetLocalSettles(s)
    \/ SetRemoteSettles(s)
    \/ CreateAnswerSettles(s)
    \/ ConnectionStateChanges(s)

GlareSpec == GlareInit /\ [][GlareNext]_vars

\* The controller driven by the UI alone: commands and the settling of what
\* they await, no message arriving; the mute buttons are used, and the
\* socket's send() may throw.
CommandNext ==
  \E s \in Sides :
    \/ ConnectWebSocket(s)
    \/ WsOnOpen(s)
    \/ WsOnClose(s)
    \/ StartCall(s)
    \/ EndCallCmd(s)
    \/ EndCallSendFails(s)
    \/ ToggleVideoCmd(s)
    \/ ToggleAudioCmd(s)
    \/ GumSettles(s)
    \/ CreateOfferSettles(s)
    \/ SetLocalSettles(s)
    \/ FetchSettles(s)

CommandSpec == Init /\ [][CommandNext]_vars

\* ------------------------------------------------------------- properties
\* What the latest step did.
Did(s, kind, what) == \E i \in 1..Len(fired) : fired[i] = <<s, kind, what>>
DidKind(s, kind) ==
  \E i \in 1..Len(fired) : fired[i][1] = s /\ fired[i][2] = kind
Count(s, kind) ==
  Cardinality({i \in 1..Len(fired) : fired[i][1] = s /\ fired[i][2] = kind})

\* endCall() ran in the latest step, by command or by a received call-ended.
RanEndCall(s) == Did(s, "cmd", "endCall") \/ Did(s, "recv", "call-ended")

\* C1: endCall() is idempotent: however often it has been invoked (by
\* command, by destroy() or by a received call-ended), onCallEnded() has
\* been invoked exactly once in total, and no invocation reports an error.
C1_EndCallIdempotent ==
  \A s \in Sides :
    /\ hist[s].ends >= 1 => hist[s].callEnded = 1
    /\ RanEndCall(s) => ~DidKind(s, "error")

\* C2: no received candidate is dropped: once the handlers have finished
\* and the peer connection holds a remote description, the candidates
\* applied to it are all the candidates received, in arrival order.
C2_CandidatesBufferedInOrder ==
  \A s \in Sides :
    ( /\ tasks[s] = EmptyBag /\ ~hist[s].foreign /\ hist[s].ends = 0
      /\ Len(pcs[s]) = 1 /\ ctl[s].pc = 1 /\ pcs[s][1].remote # NoDesc )
    => pcs[s][1].cands = [i \in 1..hist[s].candIn |-> Cand(Peer(s), i)]

\* C3: glare outcome: when both sides had their own offer pending as the
\* other's offer arrived, then once nothing more can happen both sides have
\* reached connected, or both have reached failed.
C3_GlareOutcomesMatch ==
  ( /\ \A s \in Sides : hist[s].glare
    /\ ~ENABLED GlareNext )
  => \/ \A s \in Sides : ctl[s].ui = "connected"
     \/ \A s \in Sides : ctl[s].ui = "failed"

\* C4: glare context count: a controller that received an offer while its
\* own offer was pending has created exactly one peer connection.
C4_GlareSingleContext ==
  \A s \in Sides : hist[s].glare => Len(pcs[s]) = 1

\* Both sides were in glare, and one has applied the other's offer to the
\* peer connection its own startCall() created.
C4_Witness ==
  /\ \A s \in Sides : hist[s].glare
  /\ \E s \in Sides :
       /\ Len(pcs[s]) = 1 /\ ctl[s].pc = 1
       /\ pcs[s][1].remote = Offer(Peer(s), 1)

\* C5: handling a received call-ended tears down locally (peer connection
\* released, local tracks stopped), invokes onCallEnded() once, and sends
\* no call-ended back.
C5_CallEndedNotEchoed ==
  \A s \in Sides :
    Did(s, "recv", "call-ended") =>
      /\ ctl[s].pc = 0 /\ ctl[s].localStream = 0
      /\ Count(s, "callEnded") = 1
      /\ ~Did(s, "send", "call-ended")

\* C6: a received message of another session is ignored: the step that
\* receives it changes nothing of the controller, the engine or the
\* socket, sends nothing and invokes no callback.
C6_ForeignSessionIgnored ==
  [][\A s \in Sides :
       (\E i \in 1..Len(fired') :
          fired'[i][1] = s /\ fired'[i][2] = "recvForeign")
       => /\ Len(fired') = 1
          /\ UNCHANGED <<ctl, sock, pcs, streams, tasks, net>>]_vars

\* C7: if endCall() ran while a startCall() or an offer's handling was
\* suspended, and nothing was started afterwards, then once all handlers
\* have finished the controller holds no peer connection and no capture,
\* and no peer connection or capture it acquired is left open.
C7_CleanupAfterEndMidNegotiation ==
  \A s \in Sides :
    (hist[s].endedMid /\ ~hist[s].restarted /\ tasks[s] = EmptyBag)
    => /\ ctl[s].pc = 0 /\ ctl[s].localStream = 0
       /\ \A i \in 1..Len(pcs[s]) : pcs[s][i].closed
       /\ \A i \in 1..Len(streams[s]) : ~streams[s][i].live

\* Capture acquisition or offer/answer generation is in flight.
InFlight(s) ==
  \E t \in BagToSet(tasks[s]) : t.at \in {"gum", "createOffer", "createAnswer"}

\* C8: per-session serialization: while capture acquisition or offer/answer
\* generation is in flight, no message of the session and no command
\* begins to be processed.
C8_HandlersSerialized ==
  [][\A s \in Sides :
       InFlight(s) =>
         ~\E i \in 1..Len(fired') :
            /\ fired'[i][1] = s
            /\ \/ fired'[i][2] = "recv"
               \/ fired'[i] \in {<<s, "cmd", "startCall">>, <<s, "cmd", "endCall">>}]_vars

\* A full call: offer and answer were exchanged on a peer connection, the
\* last state reported is connected, and no negotiation is under way.
FullCall(s) ==
  /\ ctl[s].ui = "connected" /\ ~MidNegotiation(s) /\ ~hist[s].foreign
  /\ \E i \in 1..Len(pcs[s]) :
       pcs[s][i].local # NoDesc /\ pcs[s][i].remote # NoDesc

\* C9: after a full call, the first endCall() leaves the controller with no
\* reference to a peer connection, a local or remote stream or the socket.
C9_NothingRetainedAfterEndCall ==
  \A s \in Sides :
    (RanEndCall(s) /\ hist[s].ends = 1 /\ FullCall(s))
    => /\ ctl[s].pc = 0 /\ ctl[s].localStream = 0
       /\ ~ctl[s].ws /\ ~ctl[s].remoteStream

\* C10: closed is terminal: once onCallEnded() has fired, no later step
\* reports a connection state.
C10_ClosedIsTerminal ==
  [][\A s \in Sides :
       hist[s].callEnded > 0 =>
         ~\E i \in 1..Len(fired') :
            fired'[i][1] = s /\ fired'[i][2] = "state"]_vars

\* The step resumes a handler k that was suspended at the await at.
Resumes(s, k, at) ==
  \E t \in BagToSet(tasks[s]) :
    t.k = k /\ t.at = at /\ CopiesIn(t, tasks'[s]) < CopiesIn(t, tasks[s])

\* The step settles the getUserMedia of startCall() with a denial: no
\* stream is handed out.
CaptureDenied(s) ==
  Resumes(s, "startCall", "gum") /\ Len(streams'[s]) = Len(streams[s])

Idle(c) == c.pc = 0 /\ c.localStream = 0 /\ ~c.isCallActive

\* C11: when the capture startCall() asked for is denied, the step reports
\* exactly one error, "Failed to start call", sends nothing, and changes
\* nothing of the controller, its peer connections, streams or socket; a
\* controller on which nothing else has happened (no other startCall(),
\* nothing received) is idle afterwards: no peer connection, no local
\* stream, call not active.
C11_CaptureDeniedLeavesIdle ==
  [][\A s \in Sides :
       CaptureDenied(s) =>
         /\ fired' = <<<<s, "error", "Failed to start call">>>>
         /\ sent' = <<>>
         /\ UNCHANGED <<ctl, sock, pcs, streams, net>>
         /\ (hist[s].starts = 1 /\ hist[s].recv = 0) => Idle(ctl'[s])]_vars

\* startCall() has just reported its failure, no capture was ever granted,
\* and the controller is idle.
C11_Witness ==
  /\ Did(1, "error", "Failed to start call")
  /\ hist[1].starts = 1 /\ streams[1] = <<>> /\ pcs[1] = <<>>
  /\ ~MidNegotiation(1) /\ Idle(ctl[1])

\* C12: when startCall(), alone on the controller, reports a failure after
\* its capture succeeded (createOffer or setLocalDescription rejected), the
\* controller is idle, no offer was sent, and the peer connection and the
\* capture that startCall() acquired are released.
C12_OfferFailureLeavesIdle ==
  \A s \in Sides :
    ( /\ Did(s, "error", "Failed to start call")
      /\ streams[s] # <<>> /\ hist[s].recv = 0 /\ hist[s].ends = 0 )
    => /\ Idle(ctl[s]) /\ ~hist[s].offered
       /\ \A i \in 1..Len(pcs[s]) : pcs[s][i].closed
       /\ \A i \in 1..Len(streams[s]) : ~streams[s][i].live

\* The step runs a callback of the media engine: ontrack (the first remote
\* tracks of a peer connection arrive) or connectionstatechange.
EngineCallback(s) ==
  \E id \in 1..Len(pcs[s]) :
    \/ pcs[s][id].tracks = 0 /\ pcs'[s][id].tracks > 0
    \/ pcs'[s][id].conn # pcs[s][id].conn /\ ~pcs'[s][id].closed

\* The step handles a received signaling message: it receives one, or it
\* resumes handleOffer(), handleAnswer() or handleIceCandidate().
HandlesSignaling(s) ==
  \/ \E i \in 1..Len(fired') :
       fired'[i][1] = s /\ fired'[i][2] \in {"recv", "recvForeign"}
  \/ \E at \in {"gum", "setRemote", "createAnswer", "setLocal", "addIce"} :
       \E k \in {"handleOffer", "handleAnswer", "handleIce"} : Resumes(s, k, at)

\* C13: the handling of a received signaling message never itself reports
\* a connection state: a step that receives a message or resumes the
\* handler of one, and in which no media-engine callback runs, invokes no
\* onConnectionStateChange.
C13_SignalingReportsNoState ==
  [][\A s \in Sides :
       (HandlesSignaling(s) /\ ~EngineCallback(s)) =>
         ~\E i \in 1..Len(fired') :
            fired'[i][1] = s /\ fired'[i][2] = "state"]_vars

\* C14: each callback fires at most once per event: no step invokes
\* onRemoteStream more than once, or reports 'connected' more than once.
C14_CallbacksOncePerEvent ==
  \A s \in Sides :
    /\ Count(s, "remoteStream") <= 1
    /\ Cardinality({i \in 1..Len(fired) :
                      fired[i] = <<s, "state", "connected">>}) <= 1

\* C15: when the send of call-ended fails during endCall(), the teardown
\* still happens in that invocation (peer connection released, local
\* tracks stopped, socket closed, onCallEnded() invoked once) and no error
\* is reported.
C15_SendFailureSwallowed ==
  \A s \in Sides :
    Did(s, "sendFailed", "call-ended") =>
      /\ ctl[s].pc = 0 /\ ctl[s].localStream = 0
      /\ ~ctl[s].ws /\ sock[s] # "open"
      /\ Count(s, "callEnded") = 1
      /\ ~DidKind(s, "error")

\* All that has happened to the controller is the receipt of one offer of
\* its session: no command, no other message.
OfferAlone(s) ==
  /\ hist[s].starts = 0 /\ hist[s].ends = 0 /\ hist[s].recv = 1
  /\ hist[s].sdpIn /\ ~hist[s].foreign

\* What handleOffer() must have done, and not yet done, when it waits at
\* the await at.
OfferHandledUpTo(s, t) ==
  LET offer == Offer(Peer(s), 1)
      held == /\ ctl[s].localStream = 1 /\ streams[s] = <<NewStream>>
              /\ ctl[s].pc = 1 /\ Len(pcs[s]) = 1
              /\ pcs[s][1].senders = NTracks /\ pcs[s][1].local = NoDesc
  IN CASE t.at = "gum" -> streams[s] = <<>> /\ pcs[s] = <<>>
       [] t.at = "setRemote" ->
            held /\ t.arg = offer /\ pcs[s][1].remote = NoDesc
       [] t.at = "createAnswer" -> held /\ pcs[s][1].remote = offer
       [] t.at = "setLocal" ->
            held /\ pcs[s][1].remote = offer /\ t.arg = Answer(s, offer)
       [] OTHER -> FALSE

\* C16: an offer received by a controller with no peer connection, and
\* handled undisturbed, is handled in this order: capture acquired, peer
\* connection created with the local tracks attached, remote description
\* set from the offer, answer created, answer set as local description,
\* and then one message sent: the answer, carrying the controller's
\* sessionId, after which the handler has finished.
C16_OfferHandledInOrder ==
  \A s \in Sides :
    OfferAlone(s) =>
      /\ \A t \in BagToSet(tasks[s]) :
           /\ t.k = "handleOffer" /\ CopiesIn(t, tasks[s]) = 1
           /\ OfferHandledUpTo(s, t)
           /\ ~Did(s, "send", "answer") /\ ~ctl[s].isCallActive
      /\ Did(s, "send", "answer") =>
           LET answer == Answer(s, Offer(Peer(s), 1))
           IN /\ sent = <<Msg("answer", SessionId(s), answer)>>
              /\ tasks[s] = EmptyBag
              /\ streams[s] = <<NewStream>> /\ Len(pcs[s]) = 1
              /\ pcs[s][1].senders = NTracks
              /\ pcs[s][1].remote = Offer(Peer(s), 1)
              /\ pcs[s][1].local = answer

\* The controller has just sent its answer to the one offer it received.
C16_Witness ==
  /\ OfferAlone(1) /\ Did(1, "send", "answer")
  /\ sent = <<Msg("answer", SessionId(1), Answer(1, Offer(2, 1)))>>
  /\ pcs[1][1].local = Answer(1, Offer(2, 1))

\* C17: toggleVideo() and toggleAudio() invoked while the controller holds
\* no local stream return false and do nothing else: no callback, and no
\* change to the enabled flags or to anything of the controller, its peer
\* connections, streams, socket or suspended handlers.
C17_ToggleWithoutStreamIsNoOp ==
  [][\A s \in Sides : \A k \in {"toggleVideo", "toggleAudio"} :
       ( /\ \E i \in 1..Len(fired') : fired'[i] = <<s, "cmd", k>>
         /\ ctl[s].localStream = 0 )
       => /\ fired' = << <<s, "cmd", k>>, <<s, "return", "false">> >>
          /\ UNCHANGED <<ctl, sock, pcs, streams, tasks, net, hist>>]_vars

\* toggleVideo() has just returned false on a controller without a local
\* stream, whose video flag is still set.
C17_Witness ==
  /\ Did(1, "cmd", "toggleVideo") /\ Did(1, "return", "false")
  /\ ctl[1].localStream = 0 /\ ctl[1].isLocalVideoEnabled

\* C18: the outcome of the session-end request does not matter: the step
\* in which it settles, fulfilled or rejected, invokes no callback and
\* changes nothing, and the teardown endCall() did before it stands: when
\* the one endCall() found a connected controller with no handler under
\* way and nothing was started since, the fields hold no peer connection,
\* no local stream and no socket, and onCallEnded() was invoked once.
C18_FetchFailureSwallowed ==
  [][\A s \in Sides :
       Resumes(s, "endCall", "fetch") =>
         /\ \A i \in 1..Len(fired') : fired'[i][2] = "log"
         /\ sent' = <<>>
         /\ UNCHANGED <<ctl, sock, pcs, streams, net, hist>>
         /\ ( /\ hist[s].ends = 1 /\ sock[s] \in {"closing", "closed"}
              /\ ~hist[s].endedMid /\ ~hist[s].restarted ) =>
              /\ ctl'[s].pc = 0 /\ ctl'[s].localStream = 0 /\ ~ctl'[s].ws
              /\ ~ctl'[s].isCallActive /\ hist'[s].callEnded = 1]_vars

\* The session-end request of the one endCall() has just been rejected,
\* after a call that had reached its peer.
C18_Witness ==
  /\ Did(1, "log", "Error ending session")
  /\ hist[1].ends = 1 /\ hist[1].callEnded = 1 /\ hist[1].offered
  /\ tasks[1] = EmptyBag /\ Idle(ctl[1]) /\ ~ctl[1].ws

\* C19: whenever isCallActive is set, the controller holds a peer
\* connection and a local stream.
C19_ActiveHoldsResources ==
  \A s \in Sides :
    ctl[s].isCallActive => ctl[s].pc # 0 /\ ctl[s].localStream # 0

\* C20: no orphaned peer connection: every peer connection the controller
\* created and has not closed is the one its pc field refers to.
C20_NoOrphanedPeerConnection ==
  \A s \in Sides : \A i \in 1..Len(pcs[s]) :
    ~pcs[s][i].closed => ctl[s].pc = i

====
